---------------------------- MODULE Spec2Model ----------------------------
(***************************************************************************)
(* Model of src/app.py: the expense factory (ExpenseService.create_expense *)
(* and the validate methods) and the ledger (ExpenseManager).              *)
(*                                                                         *)
(* Decimal values are exact in the source (decimal.Decimal, 28 digits), so *)
(* they are modelled as integers on a fixed grid:                          *)
(*   - a monetary value is an integer number of units of 0.00000025, so    *)
(*     that one cent is Cent units and half a cent is Cent \div 2;         *)
(*   - a percent is an integer number of units of 0.005, so that           *)
(*     Decimal('100') is Hundred.                                          *)
(* Every monetary input of the model is a multiple of half a cent and      *)
(* every percent a multiple of 0.005, so amount * percent / 100 is a whole *)
(* number of monetary units and no quotient is truncated.                  *)
(***************************************************************************)
EXTENDS Integers, Sequences, FiniteSets

VARIABLES user_map, balance_sheet, expenses, last, pending, output

vars == <<user_map, balance_sheet, expenses, last, pending, output>>

---------------------------------------------------------------------------
(* Representation of Decimal                                               *)

\* Decimal('0.01') as a monetary value (app.py:72): units per cent.
Cent == 40000

\* Decimal('100') as a percent (app.py:81, app.py:93).
Hundred == 20000

\* Decimal('0.01') as a percent (app.py:81).
PercentTolerance == 2

HalfCent == Cent \div 2

Abs(x) == IF x < 0 THEN -x ELSE x

\* floor(a * b / c) for c > 0, without forming a * b.
MulDiv(a, b, c) == (a \div c) * b + ((a % c) * b) \div c

\* Rounding to the nearest integer with a tie going up.
RoundHalfUp(num, den) ==
    LET q == num \div den
        r == num % den
    IN  IF 2 * r >= den THEN q + 1 ELSE q

\* Decimal.__round__() with no digits: the nearest integer to num / den
\* (den > 0), a tie going to the even neighbour (ROUND_HALF_EVEN).
RoundHalfEven(num, den) ==
    LET q == num \div den
        r == num % den
    IN  IF 2 * r < den THEN q
        ELSE IF 2 * r > den THEN q + 1
        ELSE IF q % 2 = 0 THEN q ELSE q + 1

---------------------------------------------------------------------------
(* Users and splits                                                        *)

Users == {"u1", "u2", "u3"}

User(id, name) == [id |-> id, name |-> name]

\* A Split object: its class, the id of its user (the only field of the user
\* the ledger reads), its amount and, for a PercentSplit, its percent.
EqualSplit(u) == [kind |-> "EqualSplit", user |-> u, amount |-> 0, percent |-> 0]

ExactSplit(u, amount) ==
    [kind |-> "ExactSplit", user |-> u, amount |-> amount, percent |-> 0]

PercentSplit(u, percent) ==
    [kind |-> "PercentSplit", user |-> u, amount |-> 0, percent |-> percent]

RECURSIVE SumAmounts(_)
SumAmounts(splits) ==
    IF splits = <<>> THEN 0
    ELSE Head(splits).amount + SumAmounts(Tail(splits))

RECURSIVE SumPercents(_)
SumPercents(splits) ==
    IF splits = <<>> THEN 0
    ELSE Head(splits).percent + SumPercents(Tail(splits))

\* Some split is of the class (or there is none).
SomeOfKind(splits, kind) ==
    splits = <<>> \/ \E i \in 1..Len(splits) : splits[i].kind = kind

AllOfKind(splits, kind) == \A i \in 1..Len(splits) : splits[i].kind = kind

---------------------------------------------------------------------------
(* Expense.validate                                                        *)

EqualExpense_validate(amount, splits) == AllOfKind(splits, "EqualSplit")

\* The comparison with the bound included.
ExactWithinToleranceInclusive(total_amount, amount) ==
    Abs(total_amount - amount) <= Cent

ExactWithinTolerance(total_amount, amount) == Abs(total_amount - amount) < Cent

ExactExpense_validate(amount, splits) ==
    /\ AllOfKind(splits, "ExactSplit")
    /\ ExactWithinTolerance(SumAmounts(splits), amount)

\* The comparison with the bound included.
PercentWithinToleranceInclusive(total_percent) ==
    Abs(total_percent - Hundred) <= PercentTolerance

PercentWithinTolerance(total_percent) ==
    Abs(total_percent - Hundred) < PercentTolerance

PercentExpense_validate(amount, splits) ==
    /\ AllOfKind(splits, "PercentSplit")
    /\ PercentWithinTolerance(SumPercents(splits))

validate(expense) ==
    CASE expense.type = "EQUAL" -> EqualExpense_validate(expense.amount, expense.splits)
      [] expense.type = "EXACT" -> ExactExpense_validate(expense.amount, expense.splits)
      [] expense.type = "PERCENT" -> PercentExpense_validate(expense.amount, expense.splits)

---------------------------------------------------------------------------
(* ExpenseService.create_expense                                           *)

ExpenseTypes == {"EQUAL", "EXACT", "PERCENT"}

\* (amount * split.percent) / Decimal('100')
PercentShare(amount, percent) == MulDiv(amount, percent, Hundred)

PercentAmounts(amount, splits) ==
    [i \in 1..Len(splits) |->
        IF splits[i].kind = "PercentSplit"
        THEN [splits[i] EXCEPT !.amount = PercentShare(amount, splits[i].percent)]
        ELSE splits[i]]

\* round((amount * Decimal('100')) / total_splits) / Decimal('100'):
\* amount * 100 / total_splits in currency is amount / (Cent * total_splits)
\* in units, and a whole number c of cents is c * Cent units.
EqualShare(amount, total_splits) ==
    RoundHalfEven(amount, Cent * total_splits) * Cent

\* The equal shares without the remainder given to the first participant.
EqualAmountsNoRemainder(amount, splits) ==
    [i \in 1..Len(splits) |->
        [splits[i] EXCEPT !.amount = EqualShare(amount, Len(splits))]]

EqualAmounts(amount, splits) ==
    LET total_splits == Len(splits)
        split_amount == EqualShare(amount, total_splits)
    IN  [i \in 1..total_splits |->
            [splits[i] EXCEPT !.amount =
                IF i = 1
                THEN split_amount + (amount - split_amount * total_splits)
                ELSE split_amount]]

Expense(type, amount, paid_by, splits) ==
    [type |-> type, amount |-> amount, paid_by |-> paid_by, splits |-> splits]

NoExpense == Expense("NONE", 0, User("", ""), <<>>)

\* The outcome of create_expense: "raise" (the division by a participant
\* count of 0), "none" (None is returned) or "expense".
create_expense(expense_type, amount, paid_by, splits) ==
    IF expense_type = "EQUAL" /\ Len(splits) = 0
    THEN [result |-> "raise", expense |-> NoExpense]
    ELSE IF expense_type \notin ExpenseTypes
    THEN [result |-> "none", expense |-> NoExpense]
    ELSE LET computed ==
                 CASE expense_type = "EXACT" -> splits
                   [] expense_type = "PERCENT" -> PercentAmounts(amount, splits)
                   [] expense_type = "EQUAL" -> EqualAmounts(amount, splits)
             expense == Expense(expense_type, amount, paid_by, computed)
         IN  IF validate(expense)
             THEN [result |-> "expense", expense |-> expense]
             ELSE [result |-> "none", expense |-> NoExpense]

---------------------------------------------------------------------------
(* ExpenseManager                                                          *)

\* d[k] = v on a dict: the key is added when it is missing.
SetItem(d, k, v) == [x \in (DOMAIN d) \cup {k} |-> IF x = k THEN v ELSE d[x]]

EmptyDict == [x \in {} |-> 0]

\* The loop with the payee's entry moved the same way as the payer's.
RECURSIVE UpdateBalancesSameSign(_, _, _, _)
UpdateBalancesSameSign(sheet, paid_by, splits, i) ==
    IF i > Len(splits) THEN [sheet |-> sheet, raised |-> FALSE]
    ELSE
      LET paid_to == splits[i].user
          payer_row == sheet[paid_by]
          payer_old == IF paid_to \in DOMAIN payer_row THEN payer_row[paid_to] ELSE 0
          sheet1 == SetItem(sheet, paid_by,
                        SetItem(payer_row, paid_to, payer_old + splits[i].amount))
      IN  IF paid_to \notin DOMAIN sheet1
          THEN [sheet |-> sheet1, raised |-> TRUE]
          ELSE
            LET payee_row == sheet1[paid_to]
                payee_old == IF paid_by \in DOMAIN payee_row
                             THEN payee_row[paid_by] ELSE 0
                sheet2 == SetItem(sheet1, paid_to,
                              SetItem(payee_row, paid_by, payee_old + splits[i].amount))
            IN  UpdateBalancesSameSign(sheet2, paid_by, splits, i + 1)

\* The loop with the payer's own split special-cased: only the first of the
\* two updates is made when the participant is the payer.
RECURSIVE UpdateBalancesOwnSplitOnce(_, _, _, _)
UpdateBalancesOwnSplitOnce(sheet, paid_by, splits, i) ==
    IF i > Len(splits) THEN [sheet |-> sheet, raised |-> FALSE]
    ELSE
      LET paid_to == splits[i].user
          payer_row == sheet[paid_by]
          payer_old == IF paid_to \in DOMAIN payer_row THEN payer_row[paid_to] ELSE 0
          sheet1 == SetItem(sheet, paid_by,
                        SetItem(payer_row, paid_to, payer_old + splits[i].amount))
      IN  IF paid_to \notin DOMAIN sheet1
          THEN [sheet |-> sheet1, raised |-> TRUE]
          ELSE IF paid_to = paid_by
          THEN UpdateBalancesOwnSplitOnce(sheet1, paid_by, splits, i + 1)
          ELSE
            LET payee_row == sheet1[paid_to]
                payee_old == IF paid_by \in DOMAIN payee_row
                             THEN payee_row[paid_by] ELSE 0
                sheet2 == SetItem(sheet1, paid_to,
                              SetItem(payee_row, paid_by, payee_old - splits[i].amount))
            IN  UpdateBalancesOwnSplitOnce(sheet2, paid_by, splits, i + 1)

\* The loop with the payer's entry assigned the share instead of growing by it.
RECURSIVE UpdateBalancesPayerOverwrite(_, _, _, _)
UpdateBalancesPayerOverwrite(sheet, paid_by, splits, i) ==
    IF i > Len(splits) THEN [sheet |-> sheet, raised |-> FALSE]
    ELSE
      LET paid_to == splits[i].user
          payer_row == sheet[paid_by]
          payer_old == IF paid_to \in DOMAIN payer_row THEN payer_row[paid_to] ELSE 0
          sheet1 == SetItem(sheet, paid_by,
                        SetItem(payer_row, paid_to, splits[i].amount))
      IN  IF paid_to \notin DOMAIN sheet1
          THEN [sheet |-> sheet1, raised |-> TRUE]
          ELSE
            LET payee_row == sheet1[paid_to]
                payee_old == IF paid_by \in DOMAIN payee_row
                             THEN payee_row[paid_by] ELSE 0
                sheet2 == SetItem(sheet1, paid_to,
                              SetItem(payee_row, paid_by, payee_old - splits[i].amount))
            IN  UpdateBalancesPayerOverwrite(sheet2, paid_by, splits, i + 1)

\* The loop with the payee's entry assigned the share instead of falling by it.
RECURSIVE UpdateBalancesPayeeOverwrite(_, _, _, _)
UpdateBalancesPayeeOverwrite(sheet, paid_by, splits, i) ==
    IF i > Len(splits) THEN [sheet |-> sheet, raised |-> FALSE]
    ELSE
      LET paid_to == splits[i].user
          payer_row == sheet[paid_by]
          payer_old == IF paid_to \in DOMAIN payer_row THEN payer_row[paid_to] ELSE 0
          sheet1 == SetItem(sheet, paid_by,
                        SetItem(payer_row, paid_to, payer_old + splits[i].amount))
      IN  IF paid_to \notin DOMAIN sheet1
          THEN [sheet |-> sheet1, raised |-> TRUE]
          ELSE
            LET payee_row == sheet1[paid_to]
                payee_old == IF paid_by \in DOMAIN payee_row
                             THEN payee_row[paid_by] ELSE 0
                sheet2 == SetItem(sheet1, paid_to,
                              SetItem(payee_row, paid_by, 0 - splits[i].amount))
            IN  UpdateBalancesPayeeOverwrite(sheet2, paid_by, splits, i + 1)

\* The loop over expense.splits, from split i on. A participant with no row
\* in the balance sheet raises KeyError at the read of its row, after the
\* payer's entry for that split was written.
RECURSIVE UpdateBalances(_, _, _, _)
UpdateBalances(sheet, paid_by, splits, i) ==
    IF i > Len(splits) THEN [sheet |-> sheet, raised |-> FALSE]
    ELSE
      LET paid_to == splits[i].user
          payer_row == sheet[paid_by]
          payer_old == IF paid_to \in DOMAIN payer_row THEN payer_row[paid_to] ELSE 0
          sheet1 == SetItem(sheet, paid_by,
                        SetItem(payer_row, paid_to, payer_old + splits[i].amount))
      IN  IF paid_to \notin DOMAIN sheet1
          THEN [sheet |-> sheet1, raised |-> TRUE]
          ELSE
            LET payee_row == sheet1[paid_to]
                payee_old == IF paid_by \in DOMAIN payee_row
                             THEN payee_row[paid_by] ELSE 0
                sheet2 == SetItem(sheet1, paid_to,
                              SetItem(payee_row, paid_by, payee_old - splits[i].amount))
            IN  UpdateBalances(sheet2, paid_by, splits, i + 1)

Request(expense_type, amount, paid_by, splits) ==
    [expense_type |-> expense_type, amount |-> amount,
     paid_by |-> paid_by, splits |-> splits]

\* add_expense with the expense appended to the log before it is checked.
add_expense_result_append_first(users, sheet, log, req) ==
    IF req.paid_by \notin DOMAIN users
    THEN [sheet |-> sheet, log |-> log, outcome |-> "KeyError"]
    ELSE
      LET made == create_expense(req.expense_type, req.amount,
                                 users[req.paid_by], req.splits)
      IN  IF made.result = "raise"
          THEN [sheet |-> sheet, log |-> log, outcome |-> "DivisionByZero"]
          ELSE IF made.result = "none"
          THEN [sheet |-> sheet, log |-> Append(log, NoExpense),
                outcome |-> "rejected"]
          ELSE
            LET updated == UpdateBalances(sheet, req.paid_by, made.expense.splits, 1)
            IN  [sheet |-> updated.sheet,
                 log |-> Append(log, made.expense),
                 outcome |-> IF updated.raised THEN "KeyError" ELSE "accepted"]

\* ExpenseManager.add_expense on the ledger (users, sheet, log): the ledger
\* it leaves and how the call ended: "accepted", "rejected" ("Invalid
\* expense"), "KeyError" (an id that is not registered) or "DivisionByZero".
add_expense_result(users, sheet, log, req) ==
    IF req.paid_by \notin DOMAIN users
    THEN [sheet |-> sheet, log |-> log, outcome |-> "KeyError"]
    ELSE
      LET made == create_expense(req.expense_type, req.amount,
                                 users[req.paid_by], req.splits)
      IN  IF made.result = "raise"
          THEN [sheet |-> sheet, log |-> log, outcome |-> "DivisionByZero"]
          ELSE IF made.result = "none"
          THEN [sheet |-> sheet, log |-> log, outcome |-> "rejected"]
          ELSE
            LET updated == UpdateBalances(sheet, req.paid_by, made.expense.splits, 1)
            IN  [sheet |-> updated.sheet,
                 log |-> Append(log, made.expense),
                 outcome |-> IF updated.raised THEN "KeyError" ELSE "accepted"]

\* The user_id of show_balance() with no argument: None. The test
\* `if user_id:` sends None (and an empty string) to the global report.
NoUserId == ""

\* What a call of show_balance printed: the balance lines, each with the
\* entry balance_sheet[row][key] it was printed for, and whether "No
\* balances" was printed. The lines are kept as a set: the order in which a
\* dict hands out its entries is not modelled. A call that prints no balance
\* report leaves NoOutput.
NoOutput == [query |-> NoUserId, reports |-> {}, no_balances |-> FALSE]

\* ExpenseManager.add_user
add_user_sheet(sheet, id) == SetItem(sheet, id, EmptyDict)

add_user(user) ==
    /\ user_map' = SetItem(user_map, user.id, user)
    /\ balance_sheet' = add_user_sheet(balance_sheet, user.id)
    /\ last' = [op |-> "add_user", outcome |-> "ok"]
    /\ output' = NoOutput
    /\ UNCHANGED <<expenses, pending>>

add_expense(req) ==
    LET r == add_expense_result(user_map, balance_sheet, expenses, req)
    IN  /\ balance_sheet' = r.sheet
        /\ expenses' = r.log
        /\ last' = [op |-> "add_expense", outcome |-> r.outcome]
        /\ output' = NoOutput
        /\ UNCHANGED user_map

\* f"{abs(amount):.2f}": the absolute value to two decimals, a tie going to
\* the even cent (Decimal.__format__ rounds ROUND_HALF_EVEN).
Format2f(amount) == RoundHalfEven(Abs(amount), Cent) * Cent

\* ExpenseManager._print_balance looks both names up in user_map before it
\* prints: an id that is not registered raises KeyError.
print_balance_raises(users, user1_id, user2_id) ==
    user1_id \notin DOMAIN users \/ user2_id \notin DOMAIN users

\* The line with the two names the other way round.
print_balance_swapped(users, user1_id, user2_id, amount) ==
    [row |-> user1_id, key |-> user2_id,
     ower |-> IF amount < 0 THEN users[user2_id].name ELSE users[user1_id].name,
     owed |-> IF amount < 0 THEN users[user1_id].name ELSE users[user2_id].name,
     amount |-> Format2f(amount)]

\* ExpenseManager._print_balance for a non-zero amount (its callers pass no
\* other): "<ower> owes <owed>: <amount>". A negative amount makes user1 the
\* ower, a positive amount makes user2 the ower.
print_balance(users, user1_id, user2_id, amount) ==
    [row |-> user1_id, key |-> user2_id,
     ower |-> IF amount < 0 THEN users[user1_id].name ELSE users[user2_id].name,
     owed |-> IF amount < 0 THEN users[user2_id].name ELSE users[user1_id].name,
     amount |-> Format2f(amount)]

\* self.balance_sheet.get(user_id, {}): the row of user_id, an empty dict
\* for an id with no row; the sheet itself is not written.
balance_row(sheet, user_id) ==
    IF user_id \in DOMAIN sheet THEN sheet[user_id] ELSE EmptyDict

\* The entries <<row, key>> show_balance calls _print_balance for: for one
\* user the non-zero entries of that user's row, for the global report the
\* positive entries of every row.
show_balance_entries(sheet, user_id) ==
    IF user_id # NoUserId
    THEN {<<user_id, other>> :
             other \in {o \in DOMAIN balance_row(sheet, user_id) :
                           balance_row(sheet, user_id)[o] # 0}}
    ELSE UNION {{<<u, other>> :
                    other \in {o \in DOMAIN sheet[u] : sheet[u][o] > 0}} :
                u \in DOMAIN sheet}

\* What a call of show_balance prints and how it ends. When every entry can
\* be printed, all are, and "No balances" is printed when there was none.
\* When the names of some entry raise KeyError the call ends there: the
\* lines printed before it are some of the printable ones (which ones
\* depends on the dict order, so every choice is kept).
show_balance_prints(users, sheet, user_id) ==
    LET entries == show_balance_entries(sheet, user_id)
        printable == {e \in entries : ~print_balance_raises(users, e[1], e[2])}
        lines(es) == {print_balance(users, e[1], e[2], sheet[e[1]][e[2]]) : e \in es}
    IN  IF printable = entries
        THEN {[outcome |-> "ok", reports |-> lines(entries),
               no_balances |-> (entries = {})]}
        ELSE {[outcome |-> "KeyError", reports |-> lines(es),
               no_balances |-> FALSE] : es \in SUBSET printable}

\* The report read with setdefault in place of get: a queried id with no
\* row is given an empty one.
show_balance_result_setdefault(users, sheet, user_id) ==
    {[sheet |-> IF user_id # NoUserId /\ user_id \notin DOMAIN sheet
                THEN SetItem(sheet, user_id, EmptyDict) ELSE sheet,
      outcome |-> p.outcome, reports |-> p.reports,
      no_balances |-> p.no_balances] :
        p \in show_balance_prints(users, sheet, user_id)}

\* ExpenseManager.show_balance on the ledger (users, sheet): the sheet it
\* leaves, what it printed and how it ended.
show_balance_result(users, sheet, user_id) ==
    {[sheet |-> sheet, outcome |-> p.outcome, reports |-> p.reports,
      no_balances |-> p.no_balances] :
        p \in show_balance_prints(users, sheet, user_id)}

show_balance(user_id) ==
    \E r \in show_balance_result(user_map, balance_sheet, user_id) :
        /\ balance_sheet' = r.sheet
        /\ last' = [op |-> "show_balance", outcome |-> r.outcome]
        /\ output' = [query |-> user_id, reports |-> r.reports,
                      no_balances |-> r.no_balances]
        /\ UNCHANGED <<user_map, expenses, pending>>

---------------------------------------------------------------------------
(* The ledger under sequences of calls                                      *)

MaxExpenses == 2

\* The User objects offered to add_user: u3 comes with two identity records.
UserPool == {User("u1", "User1"), User("u2", "User2"),
             User("u3", "User3"), User("u3", "User3b")}

LedgerAmount == 5 * Cent

LedgerPayers == {"u1", "u2"}

LedgerParticipants == {<<>>, <<"u1", "u2">>, <<"u2", "u3">>}

\* The splits the command loop builds for a strategy: one split class for
\* all participants (here with the same input value for each).
SplitsOf(kind, participants, value) ==
    [i \in 1..Len(participants) |->
        CASE kind = "EXACT" -> ExactSplit(participants[i], value)
          [] kind = "PERCENT" -> PercentSplit(participants[i], value)
          [] OTHER -> EqualSplit(participants[i])]

\* The calls of add_expense the ledger is driven with: equal expenses over
\* every participant list, exact expenses with two splits of u2 (or none)
\* whose amounts sum to the total (two halves) or not, and an unknown
\* strategy.
LedgerRequests ==
    {Request("EQUAL", LedgerAmount, p, SplitsOf("EQUAL", ps, 0)) :
        p \in LedgerPayers, ps \in LedgerParticipants}
    \cup
    {Request("EXACT", LedgerAmount, p, SplitsOf("EXACT", ps, v)) :
        p \in LedgerPayers, ps \in {<<>>, <<"u2", "u2">>},
        v \in {LedgerAmount \div 2, LedgerAmount}}
    \cup
    {Request("OTHER", LedgerAmount, p, SplitsOf("EQUAL", <<"u1", "u2">>, 0)) :
        p \in LedgerPayers}

NoRequest == Request("NONE", 0, "", <<>>)

Init ==
    /\ user_map = EmptyDict
    /\ balance_sheet = EmptyDict
    /\ expenses = <<>>
    /\ last = [op |-> "init", outcome |-> "ok"]
    /\ pending = NoRequest
    /\ output = NoOutput

AddUser == \E user \in UserPool : add_user(user)

AddExpense ==
    \E req \in LedgerRequests :
        /\ Len(add_expense_result(user_map, balance_sheet, expenses, req).log)
               <= MaxExpenses
        /\ add_expense(req)
        /\ UNCHANGED pending

\* The queries: the global report and the report of each id, registered
\* at the time of the call or not.
ShowBalance == \E user_id \in {NoUserId} \cup Users : show_balance(user_id)

Next == AddUser \/ AddExpense \/ ShowBalance

Spec == Init /\ [][Next]_vars

---------------------------------------------------------------------------
(* One call of add_expense on the ledger main() sets up                     *)

MaxSplits == 3

\* Totals: -0.05, 0.03, 0.05, 1.00 and 300.00.
SingleAmounts == {-5 * Cent, 3 * Cent, 5 * Cent, 100 * Cent, 30000 * Cent}

\* Exact amounts: -0.02, 0.02 and 0.025.
SingleExacts == {-2 * Cent, 2 * Cent, 2 * Cent + HalfCent}

\* Percents: -0.005, 49.995, 50 and 50.005.
SinglePercents == {-1, Hundred \div 2 - 1, Hundred \div 2, Hundred \div 2 + 1}

\* The participants of a command, in order: u1, u2, u3, u1, ...
ParticipantAt(i) ==
    CASE i % 3 = 1 -> "u1"
      [] i % 3 = 2 -> "u2"
      [] OTHER -> "u3"

\* What a split is built from: its class and its input value.
SplitInputs ==
    {[kind |-> "EqualSplit", value |-> 0]}
    \cup {[kind |-> "ExactSplit", value |-> a] : a \in SingleExacts}
    \cup {[kind |-> "PercentSplit", value |-> p] : p \in SinglePercents}

MakeSplit(u, input) ==
    CASE input.kind = "ExactSplit" -> ExactSplit(u, input.value)
      [] input.kind = "PercentSplit" -> PercentSplit(u, input.value)
      [] OTHER -> EqualSplit(u)

SplitLists ==
    UNION {{[i \in 1..n |-> MakeSplit(ParticipantAt(i), inputs[i])] :
               inputs \in [1..n -> SplitInputs]} : n \in 0..MaxSplits}

SingleRequests ==
    {Request(t, a, p, s) :
        t \in ExpenseTypes \cup {"OTHER"}, a \in SingleAmounts,
        p \in {"u1", "u2"}, s \in SplitLists}

\* main(): every user is registered before the first command is read.
MainUsers == {User("u1", "User1"), User("u2", "User2"), User("u3", "User3")}

MainUserMap == [id \in Users |-> CHOOSE user \in MainUsers : user.id = id]

MainSheet == [id \in Users |-> EmptyDict]

InitSingle ==
    /\ user_map = MainUserMap
    /\ balance_sheet = MainSheet
    /\ expenses = <<>>
    /\ last = [op |-> "init", outcome |-> "ok"]
    /\ pending \in SingleRequests
    /\ output = NoOutput

Submit ==
    /\ last.op = "init"
    /\ add_expense(pending)
    /\ UNCHANGED pending

NextSingle == Submit

SpecSingle == InitSingle /\ [][NextSingle]_vars

---------------------------------------------------------------------------
(* The command loop of main(): users first, then EXPENSE and SHOW commands  *)

\* The expense of the worked example: 100.00 paid by u1, split equally
\* between u1, u2 and u3.
ExampleRequest ==
    Request("EQUAL", 10000 * Cent, "u1", SplitsOf("EQUAL", <<"u1", "u2", "u3">>, 0))

\* The EXPENSE commands. (A strategy name that is not in ExpenseType is
\* stopped by ExpenseType[...] in main(); like the rejection of add_expense
\* it changes nothing in the ledger.)
MainRequests == LedgerRequests \cup {ExampleRequest}

InitMain ==
    /\ user_map = MainUserMap
    /\ balance_sheet = MainSheet
    /\ expenses = <<>>
    /\ last = [op |-> "init", outcome |-> "ok"]
    /\ pending = NoRequest
    /\ output = NoOutput

ExpenseCommand ==
    \E req \in MainRequests :
        /\ Len(add_expense_result(user_map, balance_sheet, expenses, req).log)
               <= MaxExpenses
        /\ add_expense(req)
        /\ UNCHANGED pending

ShowCommand == \E user_id \in {NoUserId} \cup Users : show_balance(user_id)

NextMain == ExpenseCommand \/ ShowCommand

SpecMain == InitMain /\ [][NextMain]_vars

---------------------------------------------------------------------------
(* What the claims read                                                     *)

HasEntry(sheet, a, b) == a \in DOMAIN sheet /\ b \in DOMAIN sheet[a]

\* balance_sheet[a][b], a missing entry counting as 0.
Bal(sheet, a, b) == IF HasEntry(sheet, a, b) THEN sheet[a][b] ELSE 0

Participants(splits) == {splits[i].user : i \in 1..Len(splits)}

\* The sum of the share amounts of the splits of user x.
RECURSIVE ShareOf(_, _)
ShareOf(splits, x) ==
    IF splits = <<>> THEN 0
    ELSE (IF Head(splits).user = x THEN Head(splits).amount ELSE 0)
         + ShareOf(Tail(splits), x)

Called(op, outcome) == last.op = op /\ last.outcome = outcome

---------------------------------------------------------------------------
(* C1: ledger antisymmetry. In every reachable state and for all user ids  *)
(* A and B, balance_sheet[A][B] = -balance_sheet[B][A], a missing entry    *)
(* counting as 0.                                                          *)
C1_LedgerAntisymmetry ==
    \A a \in Users, b \in Users :
        Bal(balance_sheet, a, b) = -Bal(balance_sheet, b, a)

(* C2: add_user on an id that is already registered overwrites the record  *)
(* in user_map and leaves every entry of the balance sheet as it was.      *)
C2_ReRegistrationKeepsBalances ==
    [][(last'.op = "add_user" /\ DOMAIN user_map' = DOMAIN user_map)
        => /\ \E user \in UserPool : user_map' = SetItem(user_map, user.id, user)
           /\ \A a \in Users, b \in Users :
                 HasEntry(balance_sheet, a, b)
                    => /\ HasEntry(balance_sheet', a, b)
                       /\ balance_sheet'[a][b] = balance_sheet[a][b]]_vars

(* C3: a call of add_expense that is rejected (create_expense returned     *)
(* None) leaves the balance sheet and the expense log exactly as they were.*)
C3_RejectionChangesNothing ==
    [][(last'.op = "add_expense" /\ last'.outcome = "rejected")
        => /\ balance_sheet' = balance_sheet
           /\ expenses' = expenses]_vars

\* An expense is rejected by a ledger that holds balances and a log.
C3_Witness ==
    /\ Called("add_expense", "rejected")
    /\ Len(expenses) = MaxExpenses
    /\ \E a \in Users, b \in Users : Bal(balance_sheet, a, b) # 0

(* C4: a call of add_expense that names an id that is not registered, as   *)
(* payer or as a participant, fails with no partial write: no balance      *)
(* entry has changed and nothing was appended to the log.                  *)
C4_UnknownUserWritesNothing ==
    [][(last'.op = "add_expense" /\ last'.outcome = "KeyError")
        => /\ balance_sheet' = balance_sheet
           /\ expenses' = expenses]_vars

---------------------------------------------------------------------------
(* Claims about one call (SpecSingle)                                       *)

Submitted == last.op = "add_expense"

LedgerUntouched == balance_sheet = MainSheet /\ expenses = <<>>

ExactRequest ==
    /\ pending.expense_type = "EXACT"
    /\ AllOfKind(pending.splits, "ExactSplit")

ExactDifference == Abs(SumAmounts(pending.splits) - pending.amount)

PercentRequest ==
    /\ pending.expense_type = "PERCENT"
    /\ AllOfKind(pending.splits, "PercentSplit")

PercentDifference == Abs(SumPercents(pending.splits) - Hundred)

SharesDifference(expense) == Abs(SumAmounts(expense.splits) - expense.amount)

(* C5: for every expense in the expense log, of any strategy, the sum of   *)
(* the share amounts of its splits equals its total amount within 0.01.    *)
C5_SharesSumToTotal ==
    \A i \in 1..Len(expenses) : SharesDifference(expenses[i]) <= Cent

(* C6, as stated: an EXACT expense whose splits are all exact splits is    *)
(* accepted if and only if the sum of the supplied amounts differs from    *)
(* the total by at most 0.01, the boundary included; otherwise it is       *)
(* rejected and the ledger is not changed.                                 *)
C6_ExactAcceptedWithinInclusive ==
    (Submitted /\ ExactRequest)
        => IF ExactDifference <= Cent
           THEN last.outcome = "accepted"
           ELSE last.outcome = "rejected" /\ LedgerUntouched

(* C6, amended: such an expense is accepted if and only if the sum of the  *)
(* supplied amounts differs from the total by strictly less than 0.01;     *)
(* otherwise (a difference of exactly 0.01 included) it is rejected and    *)
(* the ledger is not changed.                                              *)
C6_ExactAcceptedStrictlyWithin ==
    (Submitted /\ ExactRequest)
        => IF ExactDifference < Cent
           THEN last.outcome = "accepted" /\ Len(expenses) = 1
           ELSE last.outcome = "rejected" /\ LedgerUntouched

\* An exact expense whose amounts miss the total by half a cent is accepted.
C6_Witness ==
    /\ Submitted /\ ExactRequest
    /\ ExactDifference = HalfCent
    /\ last.outcome = "accepted"

(* C7, as stated: a PERCENT expense whose splits are all percent splits is *)
(* accepted if and only if the sum of the supplied percents differs from   *)
(* 100 by at most 0.01, the boundary included; it is rejected otherwise.   *)
C7_PercentAcceptedWithinInclusive ==
    (Submitted /\ PercentRequest)
        => IF PercentDifference <= PercentTolerance
           THEN last.outcome = "accepted"
           ELSE last.outcome = "rejected"

(* C7, amended: such an expense is accepted if and only if the sum of the  *)
(* supplied percents differs from 100 by strictly less than 0.01, whatever *)
(* the derived amounts sum to; it is rejected otherwise (a difference of   *)
(* exactly 0.01 included).                                                 *)
C7_PercentAcceptedStrictlyWithin ==
    (Submitted /\ PercentRequest)
        => IF PercentDifference < PercentTolerance
           THEN last.outcome = "accepted" /\ Len(expenses) = 1
           ELSE last.outcome = "rejected" /\ LedgerUntouched

\* A percent expense is accepted on its percents (100.005) although its
\* derived amounts miss the total by more than 0.01.
C7_Witness ==
    /\ Submitted /\ PercentRequest
    /\ PercentDifference = 1
    /\ last.outcome = "accepted"
    /\ SharesDifference(expenses[1]) > Cent

\* The whole numbers of cents within half a cent of total / count.
NearestShares(total, count) ==
    LET q == total \div (Cent * count)
    IN  {c * Cent : c \in {d \in (q - 1)..(q + 1) :
                              2 * Abs(d * Cent * count - total) <= Cent * count}}

(* C8: for an EQUAL expense over count >= 1 participants, the computed     *)
(* shares sum to the total amount exactly, every participant but the first *)
(* holds the same share, the quotient total / count rounded to cents, and  *)
(* the first holds that share plus the remainder total - share * count.    *)
C8_EqualSplitExact ==
    (Submitted /\ last.outcome = "accepted" /\ pending.expense_type = "EQUAL")
        => LET splits == expenses[1].splits
               count == Len(splits)
               total == pending.amount
           IN  /\ count = Len(pending.splits) /\ count >= 1
               /\ SumAmounts(splits) = total
               /\ \E share \in NearestShares(total, count) :
                     /\ \A i \in 2..count : splits[i].amount = share
                     /\ splits[1].amount = share + (total - share * count)

\* 1.00 over three participants: 0.34, 0.33, 0.33.
C8_Witness ==
    /\ Submitted /\ last.outcome = "accepted"
    /\ pending.expense_type = "EQUAL" /\ pending.amount = 100 * Cent
    /\ Len(expenses[1].splits) = 3
    /\ expenses[1].splits[1].amount = 34 * Cent
    /\ expenses[1].splits[2].amount = 33 * Cent

---------------------------------------------------------------------------
(* Claims about the ledger under sequences of calls (Spec)                  *)

Newest(log) == log[Len(log)]

(* C9: when add_expense accepts an expense paid by P, then for every       *)
(* registered user X other than P, balance[P][X] grows by the sum of the   *)
(* share amounts of X's splits and balance[X][P] falls by the same amount, *)
(* and every entry balance[A][B] with neither A nor B equal to P is        *)
(* unchanged.                                                              *)
C9_BalanceUpdate ==
    [][(last'.op = "add_expense" /\ last'.outcome = "accepted")
        => LET expense == Newest(expenses')
               p == expense.paid_by.id
           IN  /\ \A x \in (DOMAIN user_map) \ {p} :
                     /\ Bal(balance_sheet', p, x)
                           = Bal(balance_sheet, p, x) + ShareOf(expense.splits, x)
                     /\ Bal(balance_sheet', x, p)
                           = Bal(balance_sheet, x, p) - ShareOf(expense.splits, x)
               /\ \A a \in Users \ {p}, b \in Users \ {p} :
                     /\ HasEntry(balance_sheet', a, b) = HasEntry(balance_sheet, a, b)
                     /\ Bal(balance_sheet', a, b) = Bal(balance_sheet, a, b)]_vars

\* With every user registered and u3 owing u2, u1 pays an expense with two
\* splits of u2: u2 owes u1 both shares and the balances of u2 and u3 stay.
C9_Witness ==
    /\ Called("add_expense", "accepted")
    /\ DOMAIN user_map = Users
    /\ Len(expenses) = 2
    /\ Newest(expenses).paid_by.id = "u1"
    /\ Len(Newest(expenses).splits) = 2
    /\ Participants(Newest(expenses).splits) = {"u2"}
    /\ Bal(balance_sheet, "u1", "u2") = LedgerAmount
    /\ Bal(balance_sheet, "u2", "u1") = -LedgerAmount
    /\ Bal(balance_sheet, "u2", "u3") > 0
    /\ Bal(balance_sheet, "u3", "u2") < 0

SelfEntriesZero == \A u \in Users : Bal(balance_sheet, u, u) = 0

\* In the state at hand no call whose payer is among its participants is
\* rejected or fails when create_expense makes its expense and every
\* participant is registered.
SelfSplitAccepted ==
    \A req \in LedgerRequests :
        (/\ req.paid_by \in DOMAIN user_map
         /\ req.paid_by \in Participants(req.splits)
         /\ Participants(req.splits) \subseteq DOMAIN user_map
         /\ create_expense(req.expense_type, req.amount,
                           user_map[req.paid_by], req.splits).result = "expense")
        => add_expense_result(user_map, balance_sheet, expenses, req).outcome
              = "accepted"

\* An accepted expense whose payer p is a participant moves the balance of
\* every pair of distinct users by the shares of the other participants
\* only: p's own share reaches none of them.
SelfSplitStep ==
    (/\ last'.op = "add_expense" /\ last'.outcome = "accepted"
     /\ Newest(expenses').paid_by.id \in Participants(Newest(expenses').splits))
    => LET expense == Newest(expenses')
           p == expense.paid_by.id
       IN  \A a \in Users : \A b \in Users \ {a} :
              Bal(balance_sheet', a, b) - Bal(balance_sheet, a, b)
                = IF a = p THEN ShareOf(expense.splits, b)
                  ELSE IF b = p THEN -ShareOf(expense.splits, a)
                  ELSE 0

(* C10: self-split neutrality. An expense whose payer is also one of its   *)
(* participants is accepted like any other, balance[P][P] is 0 in every    *)
(* reachable state, and the payer's own split changes no balance between   *)
(* distinct users.                                                         *)
C10_SelfSplitNeutral ==
    /\ [](SelfEntriesZero /\ SelfSplitAccepted)
    /\ [][SelfSplitStep]_vars

\* u1 pays for itself and u2: the entry of u1 with itself exists and is 0.
C10_Witness ==
    /\ Called("add_expense", "accepted")
    /\ Newest(expenses).paid_by.id = "u1"
    /\ Participants(Newest(expenses).splits) = {"u1", "u2"}
    /\ ShareOf(Newest(expenses).splits, "u1") > 0
    /\ HasEntry(balance_sheet, "u1", "u1")
    /\ balance_sheet["u1"]["u1"] = 0
    /\ Bal(balance_sheet, "u1", "u2") > 0

---------------------------------------------------------------------------
(* Further claims about one call (SpecSingle)                               *)

NegativeInput ==
    \/ pending.amount < 0
    \/ /\ pending.expense_type = "PERCENT"
       /\ \E i \in 1..Len(pending.splits) :
             pending.splits[i].kind = "PercentSplit" /\ pending.splits[i].percent < 0
    \/ /\ pending.expense_type = "EXACT"
       /\ \E i \in 1..Len(pending.splits) :
             pending.splits[i].kind = "ExactSplit" /\ pending.splits[i].amount < 0

(* C11: non-negative inputs. add_expense rejects an expense with a         *)
(* negative total amount, a PERCENT expense with a negative percent and an *)
(* EXACT expense with a negative exact amount, also when the sum check of  *)
(* the strategy passes; the ledger stays as it was.                        *)
C11_NegativeInputsRejected ==
    (Submitted /\ NegativeInput)
        => last.outcome # "accepted" /\ LedgerUntouched

\* The split class a strategy takes.
KindOf(expense_type) ==
    CASE expense_type = "EQUAL" -> "EqualSplit"
      [] expense_type = "EXACT" -> "ExactSplit"
      [] expense_type = "PERCENT" -> "PercentSplit"
      [] OTHER -> "Split"

MixedRequest ==
    /\ pending.expense_type \in ExpenseTypes
    /\ \E i \in 1..Len(pending.splits) :
          pending.splits[i].kind # KindOf(pending.expense_type)

(* C14: no mixing of strategies. An EQUAL, EXACT or PERCENT expense with   *)
(* at least one split of another class is rejected, whatever its amounts   *)
(* or percents sum to, and neither the balances nor the log change.        *)
C14_MixedSplitsRejected ==
    (Submitted /\ MixedRequest)
        => last.outcome = "rejected" /\ LedgerUntouched

\* An EXACT expense whose exact amounts sum to the total is rejected for
\* the equal split it carries; so is a PERCENT expense whose percents sum
\* to 100.
C14_Witness ==
    /\ Submitted /\ MixedRequest
    /\ last.outcome = "rejected"
    /\ \/ /\ pending.expense_type = "EXACT"
          /\ SumAmounts(pending.splits) = pending.amount
          /\ \E i \in 1..Len(pending.splits) : pending.splits[i].kind = "EqualSplit"
       \/ /\ pending.expense_type = "PERCENT"
          /\ SumPercents(pending.splits) = Hundred
          /\ \E i \in 1..Len(pending.splits) : pending.splits[i].kind = "EqualSplit"

\* An accepted EQUAL expense of a whole number of cents over two or more
\* participants: the share is what every participant but the first holds.
EqualShared ==
    /\ Submitted /\ last.outcome = "accepted"
    /\ pending.expense_type = "EQUAL"
    /\ pending.amount % Cent = 0
    /\ Len(expenses[1].splits) >= 2

\* total / count lies halfway between two cents.
HalfwayCase ==
    2 * (pending.amount % (Cent * Len(pending.splits))) = Cent * Len(pending.splits)

(* C16, as stated: the equal share is total / count rounded to two         *)
(* decimals, a quotient halfway between two cents going up to the higher   *)
(* cent, for every total of at most two decimals and every count.          *)
C16_EqualShareRoundsHalfUp ==
    EqualShared
        => \A i \in 2..Len(expenses[1].splits) :
              expenses[1].splits[i].amount
                 = RoundHalfUp(pending.amount, Cent * Len(pending.splits)) * Cent

(* C16, amended: the equal share is total / count rounded to the nearest   *)
(* cent, and a quotient halfway between two cents goes to the even cent    *)
(* (0.05 / 2 gives 0.02, 0.03 / 2 gives 0.02).                             *)
C16_EqualShareRoundsHalfEven ==
    EqualShared
        => LET count == Len(expenses[1].splits)
               total == pending.amount
           IN  \A i \in 2..count :
                  LET share == expenses[1].splits[i].amount
                  IN  /\ share % Cent = 0
                      /\ 2 * Abs(share * count - total) <= Cent * count
                      /\ HalfwayCase => (share \div Cent) % 2 = 0

\* 0.05 over two participants: the share is 0.02, the lower cent, and the
\* first participant holds 0.03.
C16_Witness ==
    /\ EqualShared /\ HalfwayCase
    /\ pending.amount = 5 * Cent /\ Len(pending.splits) = 2
    /\ expenses[1].splits[2].amount = 2 * Cent
    /\ expenses[1].splits[1].amount = 3 * Cent

---------------------------------------------------------------------------
(* Claims about the reports and the log (Spec)                              *)

Reported(x, y) == \E r \in output.reports : r.row = x /\ r.key = y

NameOf(id) == user_map[id].name

GlobalShown == last.op = "show_balance" /\ output.query = NoUserId

UserShown == last.op = "show_balance" /\ output.query # NoUserId

(* C12: the global report show_balance() reports every unordered pair of   *)
(* users with a non-zero net balance exactly once, from the side whose     *)
(* entry is positive and naming the other user as the one who owes; it     *)
(* reports no settled pair, and it prints "No balances" exactly when no    *)
(* entry of the sheet is positive.                                         *)
C12_GlobalReport ==
    GlobalShown
        => /\ last.outcome = "ok"
           /\ \A a \in Users : \A b \in Users \ {a} :
                 IF Bal(balance_sheet, a, b) # 0 \/ Bal(balance_sheet, b, a) # 0
                 THEN /\ Reported(a, b) # Reported(b, a)
                      /\ Reported(a, b) => Bal(balance_sheet, a, b) > 0
                      /\ \A r \in output.reports :
                            (r.row = a /\ r.key = b)
                               => r.ower = NameOf(b) /\ r.owed = NameOf(a)
                 ELSE ~Reported(a, b) /\ ~Reported(b, a)
           /\ output.no_balances
                 = (\A a \in Users, b \in Users : Bal(balance_sheet, a, b) <= 0)

(* C13: the report of one user show_balance(X) reports exactly the         *)
(* counter-parties Y with balance[X][Y] # 0: "Y owes X" for a positive     *)
(* entry, "X owes Y" for a negative one, with the absolute amount; it      *)
(* prints "No balances" exactly when X has no non-zero entry.              *)
C13_UserReport ==
    UserShown
        => LET x == output.query
           IN  /\ last.outcome = "ok"
               /\ \A y \in Users : Reported(x, y) = (Bal(balance_sheet, x, y) # 0)
               /\ \A r \in output.reports :
                     /\ r.row = x
                     /\ r.amount = Abs(Bal(balance_sheet, x, r.key))
                     /\ IF Bal(balance_sheet, x, r.key) > 0
                        THEN r.ower = NameOf(r.key) /\ r.owed = NameOf(x)
                        ELSE r.ower = NameOf(x) /\ r.owed = NameOf(r.key)
               /\ output.no_balances
                     = (\A y \in Users : Bal(balance_sheet, x, y) = 0)

(* C15: the expense log holds exactly the accepted expenses, in the order  *)
(* of their acceptance: an accepted call appends its expense, a call of    *)
(* add_expense that is rejected or fails adds nothing, and no operation    *)
(* removes or reorders an entry.                                           *)
C15_LogIsAcceptedExpenses ==
    [][IF last'.op = "add_expense" /\ last'.outcome = "accepted"
       THEN /\ Len(expenses') = Len(expenses) + 1
            /\ SubSeq(expenses', 1, Len(expenses)) = expenses
       ELSE expenses' = expenses]_vars

(* C20: queries are read-only. A call of show_balance, with or without a   *)
(* user id and also for an id that was never registered, leaves user_map,  *)
(* the expense log and every row and entry of the balance sheet as they    *)
(* were, and creates no row for the queried id.                            *)
C20_QueriesReadOnly ==
    [][last'.op = "show_balance"
        => /\ user_map' = user_map
           /\ expenses' = expenses
           /\ balance_sheet' = balance_sheet
           /\ DOMAIN balance_sheet' = DOMAIN balance_sheet]_vars

\* The report of an id that was never registered, asked of a ledger that
\* holds an expense and balances: "No balances", and still no row for it.
C20_Witness ==
    /\ Called("show_balance", "ok")
    /\ output.query # NoUserId
    /\ output.query \notin DOMAIN user_map
    /\ output.query \notin DOMAIN balance_sheet
    /\ output.no_balances
    /\ Len(expenses) >= 1
    /\ \E a \in Users, b \in Users : Bal(balance_sheet, a, b) > 0

---------------------------------------------------------------------------
(* Claims about the command loop (SpecMain)                                 *)

\* The only expense of the log is the one of the worked example.
ExampleRecorded ==
    /\ Len(expenses) = 1
    /\ expenses[1].type = "EQUAL"
    /\ expenses[1].amount = 10000 * Cent
    /\ expenses[1].paid_by.id = "u1"
    /\ Len(expenses[1].splits) = 3

ExampleShares ==
    /\ expenses[1].splits[1].amount = 3334 * Cent
    /\ expenses[1].splits[2].amount = 3333 * Cent
    /\ expenses[1].splits[3].amount = 3333 * Cent

ExampleQueried ==
    ExampleRecorded /\ last.op = "show_balance" /\ output.query = "u2"

\* The query printed the line "<ower> owes <owed>: 33.33".
ExampleLine(ower, owed) ==
    \E r \in output.reports :
        r.ower = ower /\ r.owed = owed /\ r.amount = 3333 * Cent

(* C17, as stated: with users A, B and C at zero, an EQUAL expense of 100  *)
(* paid by A across A, B and C gives the shares 33.34, 33.33 and 33.33,    *)
(* and the report of B shows "A owes B: 33.33".                            *)
C17_WorkedExample ==
    /\ ExampleRecorded => ExampleShares
    /\ ExampleQueried => ExampleLine("User1", "User2")

(* C17, amended: the shares are 33.34, 33.33 and 33.33, and the report of  *)
(* B shows the single line "B owes A: 33.33": B's entry for A is -33.33.   *)
C17_WorkedExampleOwer ==
    /\ ExampleRecorded => ExampleShares
    /\ ExampleQueried
          => /\ last.outcome = "ok"
             /\ Bal(balance_sheet, "u2", "u1") = -3333 * Cent
             /\ ExampleLine("User2", "User1")
             /\ Cardinality(output.reports) = 1
             /\ ~output.no_balances

\* The example expense is in the log and the report of B was printed.
C17_Witness ==
    /\ ExampleQueried
    /\ ExampleShares
    /\ output.reports # {}

\* The sum of the shares of user b in the expenses of the log paid by a.
RECURSIVE PaidFor(_, _, _)
PaidFor(log, a, b) ==
    IF log = <<>> THEN 0
    ELSE (IF Head(log).paid_by.id = a THEN ShareOf(Head(log).splits, b) ELSE 0)
         + PaidFor(Tail(log), a, b)

(* C18: the ledger equals the replay of the log. With every id registered  *)
(* once, before any expense, and every payer and participant registered,   *)
(* balance[A][B] of two distinct users is the sum of B's shares in the     *)
(* expenses paid by A minus the sum of A's shares in the expenses paid by  *)
(* B.                                                                      *)
C18_LedgerEqualsReplay ==
    \A a \in Users : \A b \in Users \ {a} :
        Bal(balance_sheet, a, b)
           = PaidFor(expenses, a, b) - PaidFor(expenses, b, a)

\* u1 has paid for u2 and u2 for u1, and the two do not cancel.
C18_Witness ==
    /\ Called("add_expense", "accepted")
    /\ Len(expenses) >= 2
    /\ PaidFor(expenses, "u1", "u2") > 0
    /\ PaidFor(expenses, "u2", "u1") > 0
    /\ Bal(balance_sheet, "u1", "u2") # 0

\* The valid requests over registered users in the state at hand: payer
\* and participants are registered and create_expense makes the expense.
ValidRequests ==
    {req \in MainRequests :
        /\ req.paid_by \in DOMAIN user_map
        /\ Participants(req.splits) \subseteq DOMAIN user_map
        /\ create_expense(req.expense_type, req.amount,
                          user_map[req.paid_by], req.splits).result = "expense"}

\* add_expense(first) and then add_expense(second) on the ledger
\* (users, sheet, log).
Both(users, sheet, log, first, second) ==
    LET one == add_expense_result(users, sheet, log, first)
    IN  add_expense_result(users, one.sheet, one.log, second)

(* C19: order independence. From any ledger state, two valid expenses over *)
(* registered users recorded in either order leave the same balance table; *)
(* the two logs hold the same two expenses in the two orders.              *)
C19_OrderIndependent ==
    LET valid == ValidRequests
    IN  \A r1 \in valid : \A r2 \in valid :
        LET a == Both(user_map, balance_sheet, expenses, r1, r2)
            b == Both(user_map, balance_sheet, expenses, r2, r1)
            n == Len(expenses)
        IN  /\ a.outcome = "accepted" /\ b.outcome = "accepted"
            /\ a.sheet = b.sheet
            /\ Len(a.log) = n + 2 /\ Len(b.log) = n + 2
            /\ a.log[n + 1] = b.log[n + 2] /\ a.log[n + 2] = b.log[n + 1]

\* The ledger holds two different expenses of different payers, recorded on
\* the sheet main() sets up, and the sheet is the one the other order gives.
C19_Witness ==
    /\ Called("add_expense", "accepted")
    /\ user_map = MainUserMap
    /\ \E r1 \in MainRequests : \E r2 \in MainRequests :
          /\ r1.paid_by # r2.paid_by
          /\ Both(MainUserMap, MainSheet, <<>>, r1, r2).log = expenses
          /\ Both(MainUserMap, MainSheet, <<>>, r1, r2).sheet = balance_sheet
          /\ Both(MainUserMap, MainSheet, <<>>, r2, r1).sheet = balance_sheet
          /\ Both(MainUserMap, MainSheet, <<>>, r2, r1).log # expenses
          /\ Bal(balance_sheet, "u1", "u2") # 0

=============================================================================
